---- MODULE Spec2Model ----
(***************************************************************************)
(* A model of app.py (hutextnizer): accounts, the daily usage ledger, the  *)
(* cookie session of each browser, and the signup / login / logout /       *)
(* convert request handlers, run by concurrent request threads that share  *)
(* one database.                                                           *)
(*                                                                         *)
(* Texts are sequences of characters.  Three characters are told apart:    *)
(* " " (whitespace), "a" (any non-whitespace character) and "P", which     *)
(* abbreviates a passage of PassageWords words separated by single spaces  *)
(* (it starts and ends with a non-whitespace character), so that texts as  *)
(* long as the daily allowance can be submitted.                           *)
(*                                                                         *)
(* Each browser session has at most one request in flight; requests of     *)
(* different sessions (also sessions logged in to the same account)        *)
(* interleave at every access to the shared database.                      *)
(*                                                                         *)
(* Not modelled: the GET pages (/, /pricing, /about, /_debug_usage and the *)
(* GET forms of /signup and /login), the username column (stored, never    *)
(* read), the text of the rewrite, and the salt of the password hash.      *)
(* Signup is one step: its lookup and its insert are not interleaved.      *)
(*                                                                         *)
(* Specifications: Spec (the whole application from an empty database),    *)
(* SpecAuth (signup, login, logout from an empty database), SpecConvert    *)
(* (convert on a database with a free and a paid account, within one day), *)
(* SpecSession (all routes, for browsers that return with a cookie),       *)
(* SpecLedger (convert over several days, add_words_for_user calls one at  *)
(* a time) and SpecSequential (convert over several days, one request at a *)
(* time).                                                                  *)
(***************************************************************************)
EXTENDS Integers, Sequences, FiniteSets, TLC

\* app.py:51
DAILY_FREE_WORDS == 10000

\* ---- bounds of the model ----
MaxTextLen == 2     \* longest submitted text, in characters
MaxEmailLen == 2    \* longest submitted email, in characters
MaxReqs == 2        \* requests received in one behaviour
MaxDate == 2        \* calendar days covered

Sessions == {"s1", "s2"}
Dates == 1..MaxDate
UserIds == 1..(MaxReqs + 2)

PassageWords == DAILY_FREE_WORDS
TextChars == {" ", "a", "P"}
EmailChars == {" ", "a", "A"}
Passwords == {<<"p">>, <<"q">>}

SeqsUpTo(S, n) == UNION {[1..k -> S] : k \in 0..n}
Texts == SeqsUpTo(TextChars, MaxTextLen)
RawEmails == SeqsUpTo(EmailChars, MaxEmailLen)

\* A submitted form: a function from the fields present to their values.
FormsOver(fields, values) == UNION {[F -> values] : F \in SUBSET fields}
\* request.form.get(key, default)
FormGet(form, key, default) == IF key \in DOMAIN form THEN form[key] ELSE default

\* ---- str methods ----
IsSpace(c) == c = " "

RECURSIVE lstrip(_)
lstrip(t) == IF t # <<>> /\ IsSpace(Head(t)) THEN lstrip(Tail(t)) ELSE t

RECURSIVE rstrip(_)
rstrip(t) ==
  IF t # <<>> /\ IsSpace(t[Len(t)]) THEN rstrip(SubSeq(t, 1, Len(t) - 1)) ELSE t

\* str.strip()
strip(t) == rstrip(lstrip(t))

\* Length of the longest whitespace-free prefix of t.
RECURSIVE WordEnd(_)
WordEnd(t) == IF t = <<>> \/ IsSpace(Head(t)) THEN 0 ELSE 1 + WordEnd(Tail(t))

\* str.split(): the maximal whitespace-free runs, in order.
RECURSIVE split(_)
split(t) ==
  LET s == lstrip(t) IN
  IF s = <<>> THEN <<>>
  ELSE LET n == WordEnd(s) IN
       <<SubSeq(s, 1, n)>> \o split(SubSeq(s, n + 1, Len(s)))

\* Words that one run stands for: a run is one word, and every "P" in it
\* brings the PassageWords - 1 word boundaries of its passage.
RECURSIVE RunWords(_)
RunWords(w) ==
  IF w = <<>> THEN 1
  ELSE (IF Head(w) = "P" THEN PassageWords - 1 ELSE 0) + RunWords(Tail(w))

\* len() of a split() result.
RECURSIVE len(_)
len(ws) == IF ws = <<>> THEN 0 ELSE RunWords(Head(ws)) + len(Tail(ws))

\* app.py:76
words_in_text(text) == len(split(strip(text)))

lowerChar(c) == IF c = "A" THEN "a" ELSE c
\* str.lower()
lower(t) == [i \in 1..Len(t) |-> lowerChar(t[i])]

\* Variant: the email is trimmed only.
NormEmail_keeps_case(raw) == strip(raw)

\* email normalisation of signup and login: .lower().strip()
NormEmail(raw) == strip(lower(raw))

\* passlib bcrypt: hash(password), verify(password, hash)
bcrypt_hash(password) == <<"bcrypt", password>>
bcrypt_verify(password, h) == h = bcrypt_hash(password)

\* ---- the session dict ----
SessGet(sess, key, default) == IF key \in DOMAIN sess THEN sess[key] ELSE default
SessSet(sess, key, v) ==
  [k \in DOMAIN sess \cup {key} |-> IF k = key THEN v ELSE sess[k]]
SessSetDefault(sess, key, v) == IF key \in DOMAIN sess THEN sess ELSE SessSet(sess, key, v)
SessPop(sess, key) == [k \in DOMAIN sess \ {key} |-> sess[k]]
EmptySess == [k \in {} |-> 0]

VARIABLES
  users,     \* table users: row i has id i: [email, password_hash, is_paid]
  usage,     \* table usage: row i has id i: [user_id, date, words]
  today,     \* datetime.date.today()
  session,   \* session[s]: the session cookie of browser s
  pc,        \* pc[s]: where the request of s stands; "idle" when none is in flight
  req,       \* req[s]: the local variables of the request of s that are read after the checks
  resp,      \* resp[s]: the last response sent to s
  nreq,      \* requests received so far
  added,     \* history: added[u][d] = sum of the words passed to add_words_for_user for (u, d)
  anon_ok    \* history: anon_ok[s] = conversions of s that succeeded for an anonymous caller

vars == <<users, usage, today, session, pc, req, resp, nreq, added, anon_ok>>

NoReq == [user |-> 0, anon_uses |-> 0, wc |-> 0,
          aw_today |-> 0, aw_usage |-> 0, aw_words |-> 0]
NoResp == [op |-> "", kind |-> "", target |-> "", flash |-> "", result |-> ""]

Redirect(op, target, flash) ==
  [op |-> op, kind |-> "redirect", target |-> target, flash |-> flash, result |-> ""]
Render(op, template, result) ==
  [op |-> op, kind |-> "render", target |-> template, flash |-> "", result |-> result]
\* An exception that no handler catches: Flask answers 500.
Unhandled(op, exc) ==
  [op |-> op, kind |-> "exception", target |-> exc, flash |-> "", result |-> ""]

Init ==
  /\ users = <<>>
  /\ usage = <<>>
  /\ today = 1
  /\ session = [s \in Sessions |-> EmptySess]
  /\ pc = [s \in Sessions |-> "idle"]
  /\ req = [s \in Sessions |-> NoReq]
  /\ resp = [s \in Sessions |-> NoResp]
  /\ nreq = 0
  /\ added = [u \in UserIds |-> [d \in Dates |-> 0]]
  /\ anon_ok = [s \in Sessions |-> 0]

\* ---- helpers (app.py:54-74) ----
\* Variant: the user id of the cookie is taken without the lookup.
get_current_user_trusts_cookie(sess) == SessGet(sess, "user_id", 0)

\* The user row of the session, 0 for None.
get_current_user(sess) ==
  LET uid == SessGet(sess, "user_id", 0) IN
  IF uid = 0 THEN 0
  ELSE IF uid \in 1..Len(users) THEN uid ELSE 0

\* Variant: the lookup takes the first row of the user, whatever its date.
QueryUsage_any_date(uid, d) ==
  LET hits == {i \in 1..Len(usage) : usage[i].user_id = uid} IN
  IF hits = {} THEN 0 ELSE CHOOSE i \in hits : \A j \in hits : i <= j

\* db.query(Usage).filter(user_id == uid, date == d).first(): the row id, 0 for None.
QueryUsage(uid, d) ==
  LET hits == {i \in 1..Len(usage) : usage[i].user_id = uid /\ usage[i].date = d} IN
  IF hits = {} THEN 0 ELSE CHOOSE i \in hits : \A j \in hits : i <= j

count_today_words_for_user(user) ==
  IF user = 0 THEN 0
  ELSE LET u == QueryUsage(user, today) IN
       IF u = 0 THEN 0 ELSE usage[u].words

\* db.query(User).filter(User.email == email).first(): the row id, 0 for None.
QueryUserByEmail(email) ==
  LET hits == {i \in 1..Len(users) : users[i].email = email} IN
  IF hits = {} THEN 0 ELSE CHOOSE i \in hits : \A j \in hits : i <= j

\* ---- /convert (app.py:147-210) ----
\* The forms submitted to /convert: no field, user_text alone, or text beside
\* an empty or absent user_text.
ConvertForms ==
  {EmptySess}
    \cup {[k \in {"user_text"} |-> t] : t \in Texts}
    \cup {[k \in {"text"} |-> <<"a">>],
          [k \in {"user_text", "text"} |-> IF k = "text" THEN <<"a">> ELSE <<>>]}

\* app.py:149  request.form.get('user_text') or request.form.get('text') or ""
FormText(form) ==
  LET a == FormGet(form, "user_text", <<>>) IN
  IF a # <<>> THEN a ELSE FormGet(form, "text", <<>>)

\* Variant: the text is tested without strip().
TextMissing_unstripped(text) == text = <<>>

\* app.py:150
TextMissing(text) == strip(text) = <<>>

\* Variant: the gate closes one conversion late.
AnonGate_late(user, anon_uses) == user = 0 /\ anon_uses > 1

\* Variant: the gate looks at the counter only.
AnonGate_any_caller(user, anon_uses) == anon_uses >= 1

\* app.py:158
AnonGate(user, anon_uses) == user = 0 /\ anon_uses >= 1

\* Variant: only the words of the submitted text are held against the allowance.
OverLimit_text_only(used, wc) == wc > DAILY_FREE_WORDS

\* Variant: a request that would reach the allowance exactly is refused too.
OverLimit_at_cap(used, wc) == used + wc >= DAILY_FREE_WORDS

\* app.py:169, 175
OverLimit(used, wc) == used + wc > DAILY_FREE_WORDS

\* Variant: the limit is applied to every account, paid or not.
LedgerLimited_any_tier(user) == user # 0

\* app.py:166-167: the daily limit is checked against the ledger
LedgerLimited(user) == user # 0 /\ ~users[user].is_paid

FlashPaste == "Please paste text to convert."
FlashAnonGate == "Please Signup / Login to use the converter again."
FlashLimitUser == "Daily free limit exceeded. Please subscribe for more."
FlashLimitAnon == "Daily free limit exceeded. Please signup for more."

\* Variant: the limit is checked before the anonymous gate.
ConvertVerdict_limit_first(sess, text) ==
  LET user == get_current_user(sess)
      anon_uses == SessGet(sess, "anon_uses", 0)
      wc == words_in_text(text)
  IN IF TextMissing(text) THEN "missing"
     ELSE IF user # 0 /\ LedgerLimited(user) /\ OverLimit(count_today_words_for_user(user), wc)
       THEN "limit_user"
     ELSE IF user = 0 /\ OverLimit(SessGet(sess, "anon_words_today", 0), wc)
       THEN "limit_anon"
     ELSE IF AnonGate(user, anon_uses) THEN "anon_gate"
     ELSE "pass"

\* app.py:149-177: the checks of convert, in the order of the code; "pass"
\* when the request goes on to the rewrite call.
ConvertVerdict(sess, text) ==
  LET user == get_current_user(sess)
      anon_uses == SessGet(sess, "anon_uses", 0)
      wc == words_in_text(text)
  IN IF TextMissing(text) THEN "missing"
     ELSE IF AnonGate(user, anon_uses) THEN "anon_gate"
     ELSE IF user # 0
       THEN IF LedgerLimited(user) /\ OverLimit(count_today_words_for_user(user), wc)
            THEN "limit_user" ELSE "pass"
       ELSE IF OverLimit(SessGet(sess, "anon_words_today", 0), wc)
            THEN "limit_anon" ELSE "pass"

\* app.py:174: the anonymous branch of the limit check runs session.setdefault
SessionAfterCheck(sess, verdict) ==
  IF verdict \in {"limit_anon", "pass"} /\ get_current_user(sess) = 0
  THEN SessSetDefault(sess, "anon_words_today", 0)
  ELSE sess

ConvertReject(verdict) ==
  CASE verdict = "missing" -> Redirect("convert", "home", FlashPaste)
    [] verdict = "anon_gate" -> Redirect("convert", "signup", FlashAnonGate)
    [] verdict = "limit_user" -> Redirect("convert", "pricing", FlashLimitUser)
    [] verdict = "limit_anon" -> Redirect("convert", "signup", FlashLimitAnon)

\* app.py:149-177: what the checks of convert come to for a caller with session
\* sess who submits text: the verdict, the session as the checks leave it, the
\* locals kept for the rest of the request, and the redirect of a refusal.
ConvertOutcome(sess, text) ==
  LET verdict == ConvertVerdict(sess, text) IN
  [verdict |-> verdict,
   session |-> SessionAfterCheck(sess, verdict),
   req |-> [NoReq EXCEPT !.user = get_current_user(sess),
                         !.anon_uses = SessGet(sess, "anon_uses", 0),
                         !.wc = words_in_text(text)],
   reject |-> IF verdict = "pass" THEN NoResp ELSE ConvertReject(verdict)]

\* app.py:149-177: a convert request arrives and is checked.
ConvertCheck(s, form) ==
  /\ pc[s] = "idle"
  /\ nreq < MaxReqs
  /\ nreq' = nreq + 1
  /\ LET o == ConvertOutcome(session[s], FormText(form))
     IN /\ session' = [session EXCEPT ![s] = o.session]
        /\ IF o.verdict = "pass"
           THEN /\ pc' = [pc EXCEPT ![s] = "call"]
                /\ req' = [req EXCEPT ![s] = o.req]
                /\ UNCHANGED resp
           ELSE /\ resp' = [resp EXCEPT ![s] = o.reject]
                /\ UNCHANGED <<pc, req>>
  /\ UNCHANGED <<users, usage, today, added, anon_ok>>

\* app.py:205-208: the session counters after a successful anonymous conversion
AnonCharge(sess, anon_uses, wc) ==
  SessSet(SessSet(sess, "anon_uses", anon_uses + 1),
          "anon_words_today", SessGet(sess, "anon_words_today", 0) + wc)

\* Variant: the except branch does not return, and usage is saved as after a
\* successful call.
ConvertRewriteFail_falls_through(s) ==
  /\ pc[s] = "call"
  /\ IF req[s].user # 0
     THEN /\ pc' = [pc EXCEPT ![s] = "aw_query"]
          /\ UNCHANGED <<session, req, resp>>
     ELSE /\ session' = [session EXCEPT ![s] = AnonCharge(@, req[s].anon_uses, req[s].wc)]
          /\ pc' = [pc EXCEPT ![s] = "idle"]
          /\ resp' = [resp EXCEPT ![s] = Render("convert", "result.html", "error")]
          /\ req' = [req EXCEPT ![s] = NoReq]
  /\ UNCHANGED <<users, usage, today, nreq, added, anon_ok>>

\* app.py:196-200: the rewrite call raises; the error is rendered as the result.
ConvertRewriteFail(s) ==
  /\ pc[s] = "call"
  /\ pc' = [pc EXCEPT ![s] = "idle"]
  /\ resp' = [resp EXCEPT ![s] = Render("convert", "result.html", "error")]
  /\ req' = [req EXCEPT ![s] = NoReq]
  /\ UNCHANGED <<users, usage, today, session, nreq, added, anon_ok>>

\* Variant: usage is saved in the ledger whoever the caller is.
ConvertRewriteOk_ledger_for_all(s) ==
  /\ pc[s] = "call"
  /\ pc' = [pc EXCEPT ![s] = "aw_query"]
  /\ UNCHANGED <<users, usage, today, session, req, resp, nreq, added, anon_ok>>

\* app.py:185-194, 203-210: the rewrite call returns; usage is saved.
ConvertRewriteOk(s) ==
  /\ pc[s] = "call"
  /\ IF req[s].user # 0
     THEN /\ pc' = [pc EXCEPT ![s] = "aw_query"]
          /\ UNCHANGED <<session, req, resp, anon_ok>>
     ELSE /\ session' = [session EXCEPT ![s] = AnonCharge(@, req[s].anon_uses, req[s].wc)]
          /\ anon_ok' = [anon_ok EXCEPT ![s] = @ + 1]
          /\ pc' = [pc EXCEPT ![s] = "idle"]
          /\ resp' = [resp EXCEPT ![s] = Render("convert", "result.html", "rewritten")]
          /\ req' = [req EXCEPT ![s] = NoReq]
  /\ UNCHANGED <<users, usage, today, nreq, added>>

\* ---- add_words_for_user (app.py:67-74), one action per database access ----
\* app.py:68-69: today and the lookup of the day's row
AwQuery(s) ==
  /\ pc[s] = "aw_query"
  /\ LET u == QueryUsage(req[s].user, today) IN
     /\ req' = [req EXCEPT ![s].aw_today = today, ![s].aw_usage = u]
     /\ pc' = [pc EXCEPT ![s] = IF u = 0 THEN "aw_create" ELSE "aw_read"]
  /\ added' = [added EXCEPT ![req[s].user][today] = @ + req[s].wc]
  /\ UNCHANGED <<users, usage, today, session, resp, nreq, anon_ok>>

\* app.py:70-72: no row was found: a row with words = 0 is added to the shared
\* db session (the next query of any thread flushes it).
AwCreate(s) ==
  /\ pc[s] = "aw_create"
  /\ usage' = Append(usage, [user_id |-> req[s].user, date |-> req[s].aw_today, words |-> 0])
  /\ req' = [req EXCEPT ![s].aw_usage = Len(usage) + 1]
  /\ pc' = [pc EXCEPT ![s] = "aw_read"]
  /\ UNCHANGED <<users, today, session, resp, nreq, added, anon_ok>>

\* app.py:73: usage.words += words, the read
AwRead(s) ==
  /\ pc[s] = "aw_read"
  /\ req' = [req EXCEPT ![s].aw_words = usage[req[s].aw_usage].words]
  /\ pc' = [pc EXCEPT ![s] = "aw_write"]
  /\ UNCHANGED <<users, usage, today, session, resp, nreq, added, anon_ok>>

\* The value that usage.words += words stores.
Incremented(read, words) == read + words

\* app.py:73-74, 210: usage.words += words, the write; commit; the result page
AwWrite(s) ==
  /\ pc[s] = "aw_write"
  /\ usage' = [usage EXCEPT ![req[s].aw_usage].words = Incremented(req[s].aw_words, req[s].wc)]
  /\ pc' = [pc EXCEPT ![s] = "idle"]
  /\ resp' = [resp EXCEPT ![s] = Render("convert", "result.html", "rewritten")]
  /\ req' = [req EXCEPT ![s] = NoReq]
  /\ UNCHANGED <<users, today, session, nreq, added, anon_ok>>

\* ---- /signup, /login, /logout (app.py:105-145) ----
SignupForms ==
  {[k \in F |-> IF k = "email" THEN e ELSE p] :
     F \in SUBSET {"email", "password"}, e \in RawEmails, p \in Passwords \cup {<<>>}}

FlashRequired == "Email and password are required."
FlashRegistered == "Email already registered. Please login."
\* (the dash of app.py:123 is written "-")
FlashCreated == "Account created - you are logged in."
FlashInvalid == "Invalid credentials."
FlashLoggedIn == "Logged in successfully."
FlashLoggedOut == "Logged out."

\* app.py:109: request.form.get("email") is None when the field is absent,
\* and None has no lower()
SignupEmailRaises(form) == "email" \notin DOMAIN form

\* Variant: signup does not look the email up.
SignupOutcome_no_lookup(sess, form) ==
  IF SignupEmailRaises(form)
  THEN [verdict |-> "raises", users |-> users, session |-> sess,
        resp |-> Unhandled("signup", "AttributeError")]
  ELSE LET email == NormEmail(form["email"])
           password == FormGet(form, "password", <<>>)
       IN IF email = <<>> \/ password = <<>>
          THEN [verdict |-> "required", users |-> users, session |-> sess,
                resp |-> Redirect("signup", "signup", FlashRequired)]
          ELSE [verdict |-> "created",
                users |-> Append(users, [email |-> email,
                                         password_hash |-> bcrypt_hash(password),
                                         is_paid |-> FALSE]),
                session |-> SessSet(sess, "user_id", Len(users) + 1),
                resp |-> Redirect("signup", "home", FlashCreated)]

\* app.py:107-124, POST: what signup comes to for the caller whose session is
\* sess and who submits form: "raises" | "required" | "duplicate" | "created",
\* the accounts, the session and the response after it.
SignupOutcome(sess, form) ==
  IF SignupEmailRaises(form)
  THEN [verdict |-> "raises", users |-> users, session |-> sess,
        resp |-> Unhandled("signup", "AttributeError")]
  ELSE LET email == NormEmail(form["email"])
           password == FormGet(form, "password", <<>>)
       IN IF email = <<>> \/ password = <<>>
          THEN [verdict |-> "required", users |-> users, session |-> sess,
                resp |-> Redirect("signup", "signup", FlashRequired)]
          ELSE IF QueryUserByEmail(email) # 0
          THEN [verdict |-> "duplicate", users |-> users, session |-> sess,
                resp |-> Redirect("signup", "login", FlashRegistered)]
          ELSE [verdict |-> "created",
                users |-> Append(users, [email |-> email,
                                         password_hash |-> bcrypt_hash(password),
                                         is_paid |-> FALSE]),
                session |-> SessSet(sess, "user_id", Len(users) + 1),
                resp |-> Redirect("signup", "home", FlashCreated)]

Signup(s, form) ==
  /\ pc[s] = "idle"
  /\ nreq < MaxReqs
  /\ nreq' = nreq + 1
  /\ LET o == SignupOutcome(session[s], form)
     IN /\ users' = o.users
        /\ session' = [session EXCEPT ![s] = o.session]
        /\ resp' = [resp EXCEPT ![s] = o.resp]
  /\ UNCHANGED <<usage, today, pc, req, added, anon_ok>>

\* app.py:129-138, POST: what login comes to for the caller whose session is
\* sess and who submits form: the session and the response after it.
\* Variant: an unregistered email is sent to the signup page.
LoginOutcome_names_the_cause(sess, form) ==
  LET email == NormEmail(FormGet(form, "email", <<>>))
      password == FormGet(form, "password", <<>>)
      user == QueryUserByEmail(email)
  IN IF user = 0
     THEN [session |-> sess, resp |-> Redirect("login", "signup", FlashInvalid)]
     ELSE IF ~bcrypt_verify(password, users[user].password_hash)
     THEN [session |-> sess, resp |-> Redirect("login", "login", FlashInvalid)]
     ELSE [session |-> SessSet(sess, "user_id", user),
           resp |-> Redirect("login", "home", FlashLoggedIn)]

LoginOutcome(sess, form) ==
  LET email == NormEmail(FormGet(form, "email", <<>>))
      password == FormGet(form, "password", <<>>)
      user == QueryUserByEmail(email)
  IN IF user = 0 \/ ~bcrypt_verify(password, users[user].password_hash)
     THEN [session |-> sess, resp |-> Redirect("login", "login", FlashInvalid)]
     ELSE [session |-> SessSet(sess, "user_id", user),
           resp |-> Redirect("login", "home", FlashLoggedIn)]

Login(s, form) ==
  /\ pc[s] = "idle"
  /\ nreq < MaxReqs
  /\ nreq' = nreq + 1
  /\ LET o == LoginOutcome(session[s], form)
     IN /\ session' = [session EXCEPT ![s] = o.session]
        /\ resp' = [resp EXCEPT ![s] = o.resp]
  /\ UNCHANGED <<users, usage, today, pc, req, added, anon_ok>>

\* Variant: logout clears the whole session.
Logout_clears_session(s) ==
  /\ pc[s] = "idle"
  /\ nreq < MaxReqs
  /\ nreq' = nreq + 1
  /\ session' = [session EXCEPT ![s] = EmptySess]
  /\ resp' = [resp EXCEPT ![s] = Redirect("logout", "home", FlashLoggedOut)]
  /\ UNCHANGED <<users, usage, today, pc, req, added, anon_ok>>

\* app.py:142-145
Logout(s) ==
  /\ pc[s] = "idle"
  /\ nreq < MaxReqs
  /\ nreq' = nreq + 1
  /\ session' = [session EXCEPT ![s] = SessPop(@, "user_id")]
  /\ resp' = [resp EXCEPT ![s] = Redirect("logout", "home", FlashLoggedOut)]
  /\ UNCHANGED <<users, usage, today, pc, req, added, anon_ok>>

\* ---- the environment ----
\* app.py:39: is_paid is set outside the application (the tier change).
SetPaid(u) ==
  /\ u \in 1..Len(users)
  /\ ~users[u].is_paid
  /\ users' = [users EXCEPT ![u].is_paid = TRUE]
  /\ UNCHANGED <<usage, today, session, pc, req, resp, nreq, added, anon_ok>>

\* Midnight: datetime.date.today() moves on.
Tick ==
  /\ today < MaxDate
  /\ today' = today + 1
  /\ UNCHANGED <<users, usage, session, pc, req, resp, nreq, added, anon_ok>>

Next ==
  \/ \E s \in Sessions : \E form \in ConvertForms : ConvertCheck(s, form)
  \/ \E s \in Sessions : ConvertRewriteFail(s)
  \/ \E s \in Sessions : ConvertRewriteOk(s)
  \/ \E s \in Sessions : AwQuery(s)
  \/ \E s \in Sessions : AwCreate(s)
  \/ \E s \in Sessions : AwRead(s)
  \/ \E s \in Sessions : AwWrite(s)
  \/ \E s \in Sessions : \E form \in SignupForms : Signup(s, form)
  \/ \E s \in Sessions : \E form \in SignupForms : Login(s, form)
  \/ \E s \in Sessions : Logout(s)
  \/ \E u \in UserIds : SetPaid(u)
  \/ Tick

Spec == Init /\ [][Next]_vars

\* ---- the converter alone, within one day ----
\* The application started on the database file of earlier runs (app.py:26-30,
\* 48): a free and a paid account exist, and each browser holds the session
\* cookie of one of them or none; one browser at least is logged in to the
\* free account.
Accounts ==
  <<[email |-> <<"a">>, password_hash |-> bcrypt_hash(<<"p">>), is_paid |-> FALSE],
    [email |-> <<"a", "a">>, password_hash |-> bcrypt_hash(<<"q">>), is_paid |-> TRUE]>>

InitConvert ==
  /\ users = Accounts
  /\ usage = <<>>
  /\ today = 1
  /\ \E c \in {EmptySess} \cup {SessSet(EmptySess, "user_id", u) : u \in 1..Len(Accounts)} :
       session = [s \in Sessions |-> IF s = "s1" THEN c ELSE SessSet(EmptySess, "user_id", 1)]
  /\ pc = [s \in Sessions |-> "idle"]
  /\ req = [s \in Sessions |-> NoReq]
  /\ resp = [s \in Sessions |-> NoResp]
  /\ nreq = 0
  /\ added = [u \in UserIds |-> [d \in Dates |-> 0]]
  /\ anon_ok = [s \in Sessions |-> 0]

NextConvert ==
  \/ \E s \in Sessions : \E form \in ConvertForms : ConvertCheck(s, form)
  \/ \E s \in Sessions : ConvertRewriteFail(s)
  \/ \E s \in Sessions : ConvertRewriteOk(s)
  \/ \E s \in Sessions : AwQuery(s)
  \/ \E s \in Sessions : AwCreate(s)
  \/ \E s \in Sessions : AwRead(s)
  \/ \E s \in Sessions : AwWrite(s)

SpecConvert == InitConvert /\ [][NextConvert]_vars

\* ---- the accounts alone ----
\* Signup, login and logout from the empty database.
NextAuth ==
  \/ \E s \in Sessions : \E form \in SignupForms : Signup(s, form)
  \/ \E s \in Sessions : \E form \in SignupForms : Login(s, form)
  \/ \E s \in Sessions : Logout(s)

SpecAuth == Init /\ [][NextAuth]_vars

\* ---- returning browsers ----
\* The application serves browsers that come back with the session cookie of
\* earlier visits: the cookie may name the account, may name a user id that
\* no row of the database file has (the file was recreated since, app.py:26-30
\* and 48), and may hold the anonymous counters of one conversion made before
\* any login (app.py:205-208).
StaleId == MaxReqs + 2
Identities ==
  {EmptySess, SessSet(EmptySess, "user_id", 1), SessSet(EmptySess, "user_id", StaleId)}
Cookies ==
  Identities \cup
  {SessSet(SessSet(c, "anon_uses", 1), "anon_words_today", w) :
     c \in Identities, w \in {1}}

\* The forms of signup and login that name the email of the account, or
\* one email more.
SessionForms ==
  {form \in SignupForms :
     "email" \in DOMAIN form => form["email"] \in {<<"a">>, <<"A", "a">>}}

InitSession ==
  /\ users = <<Accounts[1]>>
  /\ usage = <<>>
  /\ today = 1
  /\ \E c \in Cookies :
       session = [s \in Sessions |-> IF s = "s1" THEN c ELSE EmptySess]
  /\ pc = [s \in Sessions |-> "idle"]
  /\ req = [s \in Sessions |-> NoReq]
  /\ resp = [s \in Sessions |-> NoResp]
  /\ nreq = 0
  /\ added = [u \in UserIds |-> [d \in Dates |-> 0]]
  /\ anon_ok = [s \in Sessions |-> 0]

NextSession ==
  \/ \E s \in Sessions : \E form \in ConvertForms : ConvertCheck(s, form)
  \/ \E s \in Sessions : ConvertRewriteFail(s)
  \/ \E s \in Sessions : ConvertRewriteOk(s)
  \/ \E s \in Sessions : AwQuery(s)
  \/ \E s \in Sessions : AwCreate(s)
  \/ \E s \in Sessions : AwRead(s)
  \/ \E s \in Sessions : AwWrite(s)
  \/ \E s \in Sessions : \E form \in SessionForms : Signup(s, form)
  \/ \E s \in Sessions : \E form \in SessionForms : Login(s, form)
  \/ \E s \in Sessions : Logout(s)

SpecSession == InitSession /\ [][NextSession]_vars

\* A request is inside add_words_for_user once it has made the lookup.
InAddWords(s) == pc[s] \in {"aw_create", "aw_read", "aw_write"}

\* ---- the ledger over several days, one add_words call at a time ----
\* As the converter alone, with midnights, and with add_words_for_user entered
\* only while no other request is inside it.
AwQueryAlone(s) == (\A t \in Sessions \ {s} : ~InAddWords(t)) /\ AwQuery(s)

NextLedger ==
  \/ \E s \in Sessions : \E form \in ConvertForms : ConvertCheck(s, form)
  \/ \E s \in Sessions : ConvertRewriteFail(s)
  \/ \E s \in Sessions : ConvertRewriteOk(s)
  \/ \E s \in Sessions : AwQueryAlone(s)
  \/ \E s \in Sessions : AwCreate(s)
  \/ \E s \in Sessions : AwRead(s)
  \/ \E s \in Sessions : AwWrite(s)
  \/ Tick

SpecLedger == InitConvert /\ [][NextLedger]_vars

\* ---- one request at a time, over several days ----
\* As the converter alone, with midnights, and with a convert request received
\* only while no other is in flight. Every browser is logged in to
\* the free account. The database may hold the usage of earlier requests of
\* today: the free account has one word of its allowance left.
EarlierUsage == <<[user_id |-> 1, date |-> 1, words |-> DAILY_FREE_WORDS - 1]>>

InitSequential ==
  /\ users = Accounts
  /\ usage \in {<<>>, EarlierUsage}
  /\ today = 1
  /\ session = [s \in Sessions |-> SessSet(EmptySess, "user_id", 1)]
  /\ pc = [s \in Sessions |-> "idle"]
  /\ req = [s \in Sessions |-> NoReq]
  /\ resp = [s \in Sessions |-> NoResp]
  /\ nreq = 0
  /\ added = [u \in UserIds |-> [d \in Dates |->
                IF usage # <<>> /\ u = 1 /\ d = 1 THEN DAILY_FREE_WORDS - 1 ELSE 0]]
  /\ anon_ok = [s \in Sessions |-> 0]

ConvertCheckAlone(s, form) == (\A t \in Sessions : pc[t] = "idle") /\ ConvertCheck(s, form)

NextSequential ==
  \/ \E s \in Sessions : \E form \in ConvertForms : ConvertCheckAlone(s, form)
  \/ \E s \in Sessions : ConvertRewriteFail(s)
  \/ \E s \in Sessions : ConvertRewriteOk(s)
  \/ \E s \in Sessions : AwQuery(s)
  \/ \E s \in Sessions : AwCreate(s)
  \/ \E s \in Sessions : AwRead(s)
  \/ \E s \in Sessions : AwWrite(s)
  \/ Tick

SpecSequential == InitSequential /\ [][NextSequential]_vars

\* ==== the claims ====
\* What get_used returns for (u, d): the words of the row the lookup finds.
Stored(u, d) == LET r == QueryUsage(u, d) IN IF r = 0 THEN 0 ELSE usage[r].words
AnonUses(sess) == SessGet(sess, "anon_uses", 0)
AnonWords(sess) == SessGet(sess, "anon_words_today", 0)
AnonymousLimitReached(r) == r.flash = FlashAnonGate
\* The words the caller of session sess has used today, as convert counts them.
UsedToday(sess) ==
  IF get_current_user(sess) # 0 THEN count_today_words_for_user(get_current_user(sess))
  ELSE AnonWords(sess)
FreeOrAnonymous(sess) ==
  get_current_user(sess) = 0 \/ ~users[get_current_user(sess)].is_paid

\* C1: whenever no add_words call is running, the count stored for every
\* (identity, date) is the sum of the deltas added for it, also after
\* concurrent calls: no increment is lost.
C1_NoLostUpdate ==
  (\A s \in Sessions : ~InAddWords(s)) =>
    \A u \in 1..Len(users) : \A d \in Dates : Stored(u, d) = added[u][d]

\* C2: under every interleaving of the convert requests of a free account, the
\* words recorded for it on one date never exceed the daily allowance.
C2_CapHoldsUnderConcurrency ==
  \A u \in 1..Len(users) : \A d \in Dates :
    ~users[u].is_paid => Stored(u, d) <= DAILY_FREE_WORDS

\* What convert comes to for the caller of session s who submits form.
Outcome(s, form) == ConvertOutcome(session[s], FormText(form))
Refused(o) == o.verdict # "pass" /\ o.reject.kind = "redirect"

\* C3: a convert request of a free account or of an anonymous caller whose usage
\* of today plus the words of the text exceeds the allowance is rejected in
\* full: it is refused with a redirect, no rewrite call is made, and the step
\* that checks it leaves the ledger and the anonymous counters as they were.
C3_RejectedInFull ==
  /\ [](\A s \in Sessions :
         (pc[s] = "idle" /\ FreeOrAnonymous(session[s])) =>
           LET used == UsedToday(session[s]) IN
           \A form \in ConvertForms :
             used + words_in_text(FormText(form)) > DAILY_FREE_WORDS =>
               LET o == Outcome(s, form) IN
               /\ Refused(o)
               /\ AnonUses(o.session) = AnonUses(session[s])
               /\ AnonWords(o.session) = AnonWords(session[s]))
  /\ [][nreq' # nreq => usage' = usage]_vars

\* C3 witness: a free account with the whole allowance used was refused for
\* the limit, and its count is still the allowance.
C3_Witness ==
  \E s \in Sessions :
    /\ resp[s].flash = FlashLimitUser
    /\ get_current_user(session[s]) # 0
    /\ Stored(get_current_user(session[s]), today) = DAILY_FREE_WORDS

\* C4: after one successful anonymous conversion of a session, every later
\* convert request with non-empty text made while unauthenticated is refused
\* with AnonymousLimitReached (redirect to signup), whatever its word count,
\* and no session has more than one successful anonymous conversion.
C4_AnonymousOnce ==
  /\ \A s \in Sessions : anon_ok[s] <= 1
  /\ \A s \in Sessions :
       (pc[s] = "idle" /\ anon_ok[s] >= 1 /\ get_current_user(session[s]) = 0) =>
         \A form \in ConvertForms :
           ~TextMissing(FormText(form)) =>
             LET o == Outcome(s, form) IN
             /\ o.reject = Redirect("convert", "signup", FlashAnonGate)
             /\ o.session = session[s]

\* C4 witness: a session that converted once anonymously was refused at the gate.
C4_Witness ==
  \E s \in Sessions :
    anon_ok[s] = 1 /\ AnonymousLimitReached(resp[s]) /\ get_current_user(session[s]) = 0

\* C5: when the rewrite call fails, the caller gets a result with the error and
\* the request records no usage: neither its check nor its failure step
\* changes the ledger or the anonymous counters.
C5_FailureNotCharged ==
  [][\A s \in Sessions :
       /\ ConvertRewriteFail(s)
            => /\ resp'[s].kind = "render" /\ resp'[s].result = "error"
               /\ pc'[s] = "idle"
               /\ usage' = usage
               /\ AnonUses(session'[s]) = AnonUses(session[s])
               /\ AnonWords(session'[s]) = AnonWords(session[s])
       /\ (pc[s] = "idle" /\ pc'[s] = "call")
            => /\ usage' = usage
               /\ AnonUses(session'[s]) = AnonUses(session[s])
               /\ AnonWords(session'[s]) = AnonWords(session[s])]_vars

\* C5 witness: an account got an error result and the ledger is empty.
C5_Witness ==
  \E s \in Sessions :
    /\ resp[s].result = "error"
    /\ get_current_user(session[s]) # 0
    /\ usage = <<>>

\* C6: a convert request of a paid account is never answered QuotaExceeded: it
\* goes on to the rewrite call unless its text is empty.
C6_PaidNeverQuotaExceeded ==
  \A s \in Sessions :
    (/\ pc[s] = "idle"
     /\ get_current_user(session[s]) # 0
     /\ users[get_current_user(session[s])].is_paid)
    => \A form \in ConvertForms :
         LET o == Outcome(s, form) IN
         \/ o.verdict = "pass"
         \/ /\ TextMissing(FormText(form))
            /\ o.reject = Redirect("convert", "home", FlashPaste)

\* C6 witness: a request of a paid account is at the rewrite call although the
\* count of today plus its words is above the allowance.
C6_Witness ==
  \E s \in Sessions :
    /\ pc[s] = "call"
    /\ req[s].user # 0
    /\ users[req[s].user].is_paid
    /\ Stored(req[s].user, today) + req[s].wc > DAILY_FREE_WORDS

\* C7: the ledger never holds two rows for the same (identity, date).
C7_OneRecordPerDay ==
  \A i \in 1..Len(usage) : \A j \in 1..Len(usage) :
    (usage[i].user_id = usage[j].user_id /\ usage[i].date = usage[j].date) => i = j

\* C8: convert reports the first violated precondition in the order text,
\* anonymous gate, quota: empty text gives the "paste text" error whoever
\* calls, and a gated anonymous caller with non-empty text gets
\* AnonymousLimitReached whatever the word count.
C8_CheckOrder ==
  \A s \in Sessions :
    pc[s] = "idle" =>
      /\ \A form \in ConvertForms :
           strip(FormText(form)) = <<>>
             => Outcome(s, form).reject = Redirect("convert", "home", FlashPaste)
      /\ (get_current_user(session[s]) = 0 /\ AnonUses(session[s]) >= 1)
           => \A form \in ConvertForms :
                strip(FormText(form)) # <<>>
                  => Outcome(s, form).reject = Redirect("convert", "signup", FlashAnonGate)

\* C8 witness: an anonymous caller whose session already counts the whole
\* allowance (any further word exceeds it) was answered AnonymousLimitReached.
C8_Witness ==
  \E s \in Sessions :
    /\ AnonymousLimitReached(resp[s])
    /\ get_current_user(session[s]) = 0
    /\ AnonUses(session[s]) >= 1
    /\ AnonWords(session[s]) >= DAILY_FREE_WORDS

\* C9: a request reaches the rewrite call only by passing the checks of
\* convert, and the checks never pass empty or whitespace-only text, a gated
\* anonymous caller, or a request over the limit.
C9_RewriteOnlyAfterChecks ==
  /\ [](\A s \in Sessions :
         pc[s] = "idle" =>
           LET gated == get_current_user(session[s]) = 0 /\ AnonUses(session[s]) >= 1
               limited == FreeOrAnonymous(session[s])
               used == UsedToday(session[s])
           IN \A form \in ConvertForms :
                (\/ gated
                 \/ strip(FormText(form)) = <<>>
                 \/ limited /\ used + words_in_text(FormText(form)) > DAILY_FREE_WORDS)
                => Outcome(s, form).verdict # "pass")
  /\ [][\A s \in Sessions :
          (pc[s] # "call" /\ pc'[s] = "call") =>
            /\ pc[s] = "idle" /\ nreq' = nreq + 1
            /\ \E form \in ConvertForms :
                 Outcome(s, form).verdict = "pass" /\ req'[s] = Outcome(s, form).req]_vars

\* C9 witness: a request of a free account for the whole allowance is at the
\* rewrite call.
C9_Witness ==
  \E s \in Sessions :
    /\ pc[s] = "call"
    /\ req[s].user # 0
    /\ ~users[req[s].user].is_paid
    /\ req[s].wc = DAILY_FREE_WORDS

\* C10: no request of signup, login or convert ends in an unhandled exception.
C10_NoUnhandledException ==
  \A s \in Sessions : resp[s].kind # "exception"

\* The email a login form names, as login looks it up (app.py:131).
LoginEmail(form) == NormEmail(FormGet(form, "email", <<>>))
Unregistered(form) == QueryUserByEmail(LoginEmail(form)) = 0
WrongPassword(form) ==
  /\ QueryUserByEmail(LoginEmail(form)) # 0
  /\ ~bcrypt_verify(FormGet(form, "password", <<>>),
                    users[QueryUserByEmail(LoginEmail(form))].password_hash)

\* C11: a failed login has one outcome, whether its email is unregistered or
\* registered with a password that does not verify: the same message, the same
\* redirect to the login page, and the session as it was.
C11_LoginFailureUniform ==
  \A form \in SignupForms :
    (Unregistered(form) \/ WrongPassword(form)) =>
      \A s \in Sessions :
        /\ LoginOutcome(session[s], form).resp = Redirect("login", "login", FlashInvalid)
        /\ LoginOutcome(session[s], form).session = session[s]

\* C11 witness: a session that holds the identity of an account was answered
\* "Invalid credentials." by login and still holds that identity, in a state
\* where login forms of both kinds of failure exist.
C11_Witness ==
  /\ \E s \in Sessions :
       /\ resp[s] = Redirect("login", "login", FlashInvalid)
       /\ get_current_user(session[s]) # 0
  /\ \E form \in SignupForms : Unregistered(form)
  /\ \E form \in SignupForms : WrongPassword(form)

\* Two emails that differ only in letter case or surrounding whitespace: what
\* is left of each between its first and its last non-space character has the
\* same length and the same letters, up to case.
SameLetterUpToCase(c, d) == c = d \/ {c, d} = {"a", "A"}
NonSpaceAt(x) == {i \in 1..Len(x) : x[i] # " "}
Min(S) == CHOOSE i \in S : \A j \in S : i <= j
Max(S) == CHOOSE i \in S : \A j \in S : i >= j
Core(x) == IF NonSpaceAt(x) = {} THEN <<>> ELSE SubSeq(x, Min(NonSpaceAt(x)), Max(NonSpaceAt(x)))
DiffersOnlyInCaseOrPadding(x, y) ==
  /\ Len(Core(x)) = Len(Core(y))
  /\ \A i \in 1..Len(Core(x)) : SameLetterUpToCase(Core(x)[i], Core(y)[i])

\* C12: signup and login normalize the email the same way. The account a
\* successful signup creates keeps the submitted email up to case and
\* surrounding whitespace and verifies the submitted password, and a login
\* with any email that differs from an account's only in case or surrounding
\* whitespace, and with its password, succeeds and sets the session identity
\* to that account.
C12_LoginAfterSignup ==
  \A form \in SignupForms :
    /\ \A s \in Sessions :
         LET o == SignupOutcome(session[s], form) IN
         o.verdict = "created" =>
           /\ Len(o.users) = Len(users) + 1
           /\ DiffersOnlyInCaseOrPadding(form["email"], o.users[Len(o.users)].email)
           /\ bcrypt_verify(form["password"], o.users[Len(o.users)].password_hash)
           /\ o.session = SessSet(session[s], "user_id", Len(o.users))
    /\ \A u \in 1..Len(users) :
         (/\ bcrypt_verify(FormGet(form, "password", <<>>), users[u].password_hash)
          /\ DiffersOnlyInCaseOrPadding(FormGet(form, "email", <<>>), users[u].email))
         => \A s \in Sessions :
              /\ LoginOutcome(session[s], form).resp = Redirect("login", "home", FlashLoggedIn)
              /\ LoginOutcome(session[s], form).session = SessSet(session[s], "user_id", u)

\* C12 witness: one session signed up, and another one logged in to the
\* account that signup created.
C12_Witness ==
  \E s \in Sessions : \E t \in Sessions \ {s} :
    /\ resp[s] = Redirect("signup", "home", FlashCreated)
    /\ resp[t] = Redirect("login", "home", FlashLoggedIn)
    /\ get_current_user(session[s]) # 0
    /\ get_current_user(session[t]) = get_current_user(session[s])

\* The accounts whose email differs from the submitted one only in case or
\* surrounding whitespace.
RegisteredAs(raw) == {u \in 1..Len(users) : DiffersOnlyInCaseOrPadding(raw, users[u].email)}

NoAccount(sess) == "user_id" \notin DOMAIN sess \/ sess["user_id"] \notin 1..Len(users)

\* C14: the identity resolver never raises: a session with no user id, or
\* with a user id that matches no account, resolves as anonymous, and convert
\* treats its caller as it treats the caller of the same session without the
\* user id: the same verdict, response, request and session counters. No
\* convert request ends in an unhandled exception, and add_words only runs
\* for a stored account.
C14_ResolverTotal ==
  \A s \in Sessions :
    /\ NoAccount(session[s]) =>
         /\ get_current_user(session[s]) = 0
         /\ count_today_words_for_user(get_current_user(session[s])) = 0
    /\ ("user_id" \in DOMAIN session[s] /\ NoAccount(session[s]) /\ pc[s] = "idle") =>
         \A form \in ConvertForms :
           LET o == Outcome(s, form)
               a == ConvertOutcome(SessPop(session[s], "user_id"), FormText(form))
           IN /\ o.verdict = a.verdict
              /\ o.reject = a.reject
              /\ o.req = a.req
              /\ o.req.user = 0
              /\ SessPop(o.session, "user_id") = a.session
    /\ ~NoAccount(session[s]) => get_current_user(session[s]) = session[s]["user_id"]
    /\ resp[s].op = "convert" => resp[s].kind # "exception"
    /\ InAddWords(s) => req[s].user \in 1..Len(users)

\* C14 witness: a session whose user id matches no account converted once as
\* an anonymous caller: its counters are charged and the ledger is empty.
C14_Witness ==
  \E s \in Sessions :
    /\ "user_id" \in DOMAIN session[s]
    /\ NoAccount(session[s])
    /\ resp[s].result = "rewritten"
    /\ anon_ok[s] = 1
    /\ AnonUses(session[s]) = 1
    /\ usage = <<>>

\* C15: no request of an anonymous caller changes the ledger. The ledger only
\* changes in a step of add_words that runs for a stored account: it adds a
\* row of that account or changes the words of one row of that account; no row
\* is keyed by the null identity. A request gets the identity its session
\* resolves to when it is checked, and the steps of a request without identity
\* (check, failed rewrite, successful rewrite) leave the ledger as it was; its
\* success is recorded in the two session counters.
C15_AnonymousNotInLedger ==
  /\ [](\A i \in 1..Len(usage) : usage[i].user_id \in 1..Len(users))
  /\ [][/\ usage' # usage =>
             \E s \in Sessions :
               /\ req[s].user \in 1..Len(users)
               /\ \/ /\ pc[s] = "aw_create" /\ pc'[s] = "aw_read"
                     /\ usage' = Append(usage, [user_id |-> req[s].user,
                                                date |-> req[s].aw_today, words |-> 0])
                  \/ /\ pc[s] = "aw_write" /\ pc'[s] = "idle"
                     /\ usage[req[s].aw_usage].user_id = req[s].user
                     /\ usage' = [usage EXCEPT ![req[s].aw_usage].words = usage'[req[s].aw_usage].words]
        /\ \A s \in Sessions :
             /\ (pc[s] = "idle" /\ pc'[s] = "call")
                  => req'[s].user = get_current_user(session[s])
             /\ (pc[s] = "call" /\ req[s].user = 0 /\ pc'[s] # "call")
                  => /\ pc'[s] = "idle"
                     /\ usage' = usage
                     /\ \/ /\ resp'[s].result = "error"
                           /\ session'[s] = session[s]
                        \/ /\ resp'[s].result = "rewritten"
                           /\ AnonUses(session'[s]) = AnonUses(session[s]) + 1
                           /\ AnonWords(session'[s]) = AnonWords(session[s]) + req[s].wc
             /\ (get_current_user(session[s]) = 0 /\ pc[s] = "idle" /\ resp'[s] # resp[s])
                  => usage' = usage]_vars

\* C15 witness: of two callers without identity, one got a rewritten text and
\* has it in its session counters, the other was refused at the anonymous
\* gate, and the ledger is empty.
C15_Witness ==
  \E s \in Sessions : \E t \in Sessions \ {s} :
    /\ "user_id" \notin DOMAIN session[s]
    /\ "user_id" \notin DOMAIN session[t]
    /\ resp[s].result = "rewritten"
    /\ AnonWords(session[s]) >= 1
    /\ AnonymousLimitReached(resp[t])
    /\ usage = <<>>

\* C16: when add_words calls do not overlap, then for every account and date,
\* whenever no call is running, the count stored for the pair is the sum of
\* the deltas added for exactly that pair (0 when there was none); and the
\* count of a pair only changes in the write of a call made for that account
\* on that date.
C16_SequentialSum ==
  /\ []((\A s \in Sessions : ~InAddWords(s)) =>
          \A u \in 1..Len(users) : \A d \in Dates : Stored(u, d) = added[u][d])
  /\ [][\A u \in 1..Len(users) : \A d \in Dates :
          Stored(u, d)' # Stored(u, d) =>
            \E s \in Sessions :
              /\ pc[s] = "aw_write" /\ pc'[s] = "idle"
              /\ req[s].user = u /\ req[s].aw_today = d
              /\ Stored(u, d)' = Stored(u, d) + req[s].wc]_vars

\* C16 witness: words were added for one account on the first day and for
\* another account on the second day, and neither changed the count of the
\* other pair of its account or its date.
C16_Witness ==
  /\ \A s \in Sessions : pc[s] = "idle"
  /\ \E u \in 1..Len(users) : \E v \in 1..Len(users) \ {u} :
       /\ Stored(u, 1) >= 1 /\ Stored(v, 2) >= 1
       /\ Stored(u, 2) = 0 /\ Stored(v, 1) = 0

\* C17: when the convert requests do not overlap, the words recorded for a
\* free account on any date are between 0 and the allowance, and, whenever no
\* request is in flight, they are the sum of the word counts of the account's
\* conversions whose rewrite succeeded and that were saved on that date. A
\* request of a free account with text is accepted when today's count plus its
\* words is at most the allowance (also when it is exactly the allowance) and
\* refused with QuotaExceeded only when it is above.
C17_FreeWithinAllowance ==
  /\ \A u \in 1..Len(users) : \A d \in Dates :
       ~users[u].is_paid =>
         /\ Stored(u, d) \in 0..DAILY_FREE_WORDS
         /\ (\A s \in Sessions : pc[s] = "idle") => Stored(u, d) = added[u][d]
  /\ \A s \in Sessions :
       (/\ pc[s] = "idle"
        /\ get_current_user(session[s]) # 0
        /\ ~users[get_current_user(session[s])].is_paid) =>
         LET used == Stored(get_current_user(session[s]), today) IN
         \A form \in ConvertForms :
           LET wc == words_in_text(FormText(form)) IN
           wc >= 1 =>
             /\ used + wc <= DAILY_FREE_WORDS => Outcome(s, form).verdict = "pass"
             /\ used + wc > DAILY_FREE_WORDS =>
                  Outcome(s, form).reject = Redirect("convert", "pricing", FlashLimitUser)

\* C17 witness: the free account has exactly the allowance recorded for today,
\* one of its requests got its rewritten text and a later one was refused for
\* the limit.
C17_Witness ==
  \E s \in Sessions : \E t \in Sessions \ {s} :
    /\ get_current_user(session[s]) # 0
    /\ get_current_user(session[t]) = get_current_user(session[s])
    /\ ~users[get_current_user(session[s])].is_paid
    /\ Stored(get_current_user(session[s]), today) = DAILY_FREE_WORDS
    /\ added[get_current_user(session[s])][today] = DAILY_FREE_WORDS
    /\ Len(usage) = 1 /\ usage[1].date = today
    /\ resp[s].result = "rewritten"
    /\ resp[t] = Redirect("convert", "pricing", FlashLimitUser)

\* C18: the anonymous gate applies to callers without identity only. A
\* session that has an anonymous conversion in its counter and resolves to an
\* account is never refused with AnonymousLimitReached: convert checks it as
\* the account and leaves its session as it is. The steps of a request made
\* for an account never change the anonymous counters of the session, and its
\* words are written to a ledger row of that account.
C18_GateOnlyForAnonymous ==
  /\ [](\A s \in Sessions :
         (/\ pc[s] = "idle"
          /\ get_current_user(session[s]) # 0
          /\ AnonUses(session[s]) >= 1) =>
           \A form \in ConvertForms :
             LET o == Outcome(s, form) IN
             /\ o.verdict \in {"missing", "limit_user", "pass"}
             /\ ~AnonymousLimitReached(o.reject)
             /\ o.session = session[s]
             /\ o.req.user = get_current_user(session[s]))
  /\ [][\A s \in Sessions :
          (req[s].user # 0 /\ pc[s] # "idle" /\ pc'[s] # pc[s]) =>
            /\ session'[s] = session[s]
            /\ anon_ok'[s] = anon_ok[s]
            /\ (pc[s] = "call" /\ resp'[s].result # "error") => pc'[s] = "aw_query"
            /\ pc[s] = "aw_write" =>
                 /\ usage[req[s].aw_usage].user_id = req[s].user
                 /\ usage'[req[s].aw_usage].words = req[s].aw_words + req[s].wc
                 /\ resp'[s].result = "rewritten"]_vars

\* C18 witness: a session that came with one anonymous conversion in its
\* counters signed up (its account is not the one the database started
\* with), converted as the new account and got its rewritten
\* text: the words are in the ledger row of the account and the counters of
\* the session are what they were.
C18_Witness ==
  \E s \in Sessions :
    /\ get_current_user(session[s]) > 1
    /\ AnonUses(session[s]) = 1
    /\ AnonWords(session[s]) = 1
    /\ resp[s].result = "rewritten"
    /\ Stored(get_current_user(session[s]), today) >= 1

\* C19: logout removes the user id from the session of its caller and nothing
\* else: the other keys of the session keep their values (the anonymous
\* conversion counter and word count among them), the other sessions, the
\* accounts and the ledger are unchanged, and the caller resolves as anonymous
\* afterwards. A session whose last request was a logout and whose counter
\* holds an anonymous conversion is refused at the anonymous gate for every
\* text.
C19_LogoutOnlyIdentity ==
  /\ [][\A s \in Sessions :
          Logout(s) =>
            /\ DOMAIN session'[s] = DOMAIN session[s] \ {"user_id"}
            /\ \A k \in DOMAIN session'[s] : session'[s][k] = session[s][k]
            /\ AnonUses(session'[s]) = AnonUses(session[s])
            /\ AnonWords(session'[s]) = AnonWords(session[s])
            /\ \A t \in Sessions \ {s} : session'[t] = session[t]
            /\ users' = users
            /\ usage' = usage
            /\ resp'[s] = Redirect("logout", "home", FlashLoggedOut)]_vars
  /\ [](\A s \in Sessions :
         (pc[s] = "idle" /\ resp[s].op = "logout") =>
           /\ get_current_user(session[s]) = 0
           /\ AnonUses(session[s]) >= 1 =>
                \A form \in ConvertForms :
                  ~TextMissing(FormText(form)) =>
                    Outcome(s, form).reject = Redirect("convert", "signup", FlashAnonGate))

\* C19 witness: the only browser that made requests came with an anonymous
\* conversion in its counter, converted as an account (the ledger has the
\* words) and logged out: it resolves as anonymous, its counter is unchanged,
\* and its next text is refused at the anonymous gate.
C19_Witness ==
  \E s \in Sessions :
    /\ \A t \in Sessions \ {s} : resp[t] = NoResp /\ pc[t] = "idle"
    /\ resp[s] = Redirect("logout", "home", FlashLoggedOut)
    /\ usage # <<>>
    /\ AnonUses(session[s]) = 1
    /\ get_current_user(session[s]) = 0
    /\ \E form \in ConvertForms :
         Outcome(s, form).reject = Redirect("convert", "signup", FlashAnonGate)

====
